---- MODULE Spec2Model ----
(***************************************************************************)
(* A model of scanner.py, the dual moving-average crossover scanner:       *)
(*   - calculate_dual_ma_signals, the crossover detector (a pure function  *)
(*     of one candle series and the scan parameters);                      *)
(*   - scan_symbols, the fetch stage on a ThreadPoolExecutor followed by   *)
(*     the sequential detection/filter loop;                               *)
(*   - get_working_endpoint / ping_endpoint, the endpoint prober;          *)
(*   - fetch_candles, the candles request and the frame built from it;     *)
(*   - main, from the press of the scan button to the results or the       *)
(*     except clause.                                                      *)
(*                                                                         *)
(* Moving averages are kept as exact fractions <<sum, period>> and are     *)
(* compared by cross-multiplication, so the model is the code under exact  *)
(* arithmetic (no floating-point rounding).                                *)
(***************************************************************************)
EXTENDS Integers, Sequences, FiniteSets, TLC

VARIABLES
    pc,                   \* position of the main thread
    df,                   \* detector harness: the candle series handed to the detector
    ma_fast,              \* fast period
    ma_slow,              \* slow period
    cross_confirm_bars,   \* lookback bars
    enable_price_filter,  \* position filter switch
    golden_price_filter,  \* position requirement for golden crosses
    death_price_filter,   \* position requirement for death crosses
    detect_ret,           \* detector harness: what calculate_dual_ma_signals returned
    compared,             \* detector harness: the i whose pair of bars the loop classified
    symbols,              \* scan_symbols: the instrument list
    responses,            \* the exchange: its answer to each instrument's candles request
    ticker_response,      \* the exchange: its answer to the tickers request
    signal_types,         \* selected signal directions
    min_volume,           \* minimum 24h volume
    tickers,              \* scan_symbols: the ticker map
    futures,              \* the executor's futures, one per submitted instrument
    requests_sent,        \* candles requests issued so far, per instrument
    candle_data,          \* scan_symbols: the dict of fetched series, in insertion order
    processed,            \* scan_symbols: completed-fetch counter
    idx,                  \* scan_symbols: position of the detection loop
    insufficient_data,    \* scan_symbols: instruments with too few candles
    results,              \* scan_symbols: the result list
    scan_stats,           \* scan_symbols: the statistics returned
    endpoints,            \* Config.ENDPOINTS, the candidate list
    ep_idx,               \* get_working_endpoint: position in the candidate list
    attempt,              \* get_working_endpoint: pings of the current candidate so far
    pings,                \* pings issued so far, per candidate
    last_answer,          \* the answer to the latest ping, per candidate
    base,                 \* the endpoint get_working_endpoint returned
    ticker_requests,      \* tickers requests issued so far
    evaluated,            \* scan_symbols: the filter predicates evaluated, in order
    listing_response,     \* the exchange: its answer to the contracts request
    listing_requests,     \* contracts requests issued so far
    probe_calls           \* calls of get_working_endpoint so far

paramVars == <<ma_fast, ma_slow, cross_confirm_bars, enable_price_filter,
               golden_price_filter, death_price_filter>>
detectVars == <<df, detect_ret, compared>>
scanInputVars == <<symbols, responses, ticker_response, signal_types, min_volume>>
poolVars == <<futures, requests_sent>>
scanVars == <<tickers, candle_data, processed, idx, insufficient_data, results,
              scan_stats, ticker_requests, evaluated>>
probeVars == <<endpoints, ep_idx, attempt, pings, last_answer, base>>
mainVars == <<listing_response, listing_requests, probe_calls>>
vars == <<pc, paramVars, detectVars, scanInputVars, poolVars, scanVars, probeVars,
          mainVars>>

-----------------------------------------------------------------------------
(* Values *)

None == <<>>
Some(x) == <<x>>
NaN == <<>>

Max(a, b) == IF a >= b THEN a ELSE b
Min(a, b) == IF a <= b THEN a ELSE b
Abs(a) == IF a < 0 THEN 0 - a ELSE a

\* fractions <<num, den>> with den > 0; a comparison with NaN is False
Lt(a, b) == a # NaN /\ b # NaN /\ a[1] * b[2] < b[1] * a[2]
Le(a, b) == a # NaN /\ b # NaN /\ a[1] * b[2] <= b[1] * a[2]
Gt(a, b) == Lt(b, a)
Ge(a, b) == Le(b, a)
isna(v) == v = NaN

-----------------------------------------------------------------------------
(* Position-filter labels.  The sidebar builds them from the two periods   *)
(* (f"K线在MA{ma_fast}上方" ...), and the detector compares the configured   *)
(* label with labels it rebuilds from its own ma_fast / ma_slow.           *)

NoRequirement == [kind |-> "none", ma |-> 0]
AboveMA(p) == [kind |-> "above", ma |-> p]
AboveBoth == [kind |-> "above_both", ma |-> 0]
AboveMANear(p) == [kind |-> "above_within3", ma |-> p]
BelowMA(p) == [kind |-> "below", ma |-> p]
BelowBoth == [kind |-> "below_both", ma |-> 0]
BelowMANear(p) == [kind |-> "below_within3", ma |-> p]

GoldenFilterOptions(fast, slow) ==
    {NoRequirement, AboveMA(fast), AboveMA(slow), AboveBoth,
     AboveMANear(fast), AboveMANear(slow)}
DeathFilterOptions(fast, slow) ==
    {NoRequirement, BelowMA(fast), BelowMA(slow), BelowBoth,
     BelowMANear(fast), BelowMANear(slow)}

-----------------------------------------------------------------------------
(* calculate_dual_ma_signals *)

RECURSIVE SumRange(_, _, _)
SumRange(close, lo, hi) ==
    IF lo > hi THEN 0 ELSE close[hi] + SumRange(close, lo, hi - 1)

\* close_series.rolling(window=w).mean(): NaN until w bars are available
RollingMean(close, w) ==
    [i \in 1..Len(close) |->
        IF i < w THEN NaN ELSE <<SumRange(close, i - w + 1, i), w>>]

CloseSeries(d) == [i \in 1..Len(d) |-> d[i].close]

MinCandlesNeededNoBuffer(fast, slow) == Max(fast, slow)
MinCandlesNeeded(fast, slow) == Max(fast, slow) + 10

\* line.isna().all()
AllNa(line) == \A i \in 1..Len(line) : isna(line[i])

\* iloc[-k] of a line of length n
Iloc(line, k) == line[Len(line) - k + 1]

GoldenCrossAtLoose(fl, sl, i) ==
    Le(Iloc(fl, i + 1), Iloc(sl, i + 1)) /\ Ge(Iloc(fl, i), Iloc(sl, i))
GoldenCrossAt(fl, sl, i) ==
    Le(Iloc(fl, i + 1), Iloc(sl, i + 1)) /\ Gt(Iloc(fl, i), Iloc(sl, i))

DeathCrossAt(fl, sl, i) ==
    Ge(Iloc(fl, i + 1), Iloc(sl, i + 1)) /\ Lt(Iloc(fl, i), Iloc(sl, i))

\* the same test looking at the later bar of the pair only
AnyNaAtLaterBar(fl, sl, i) ==
    isna(Iloc(fl, i)) \/ isna(Iloc(sl, i))

AnyNaAt(fl, sl, i) ==
    \/ isna(Iloc(fl, i + 1)) \/ isna(Iloc(sl, i + 1))
    \/ isna(Iloc(fl, i)) \/ isna(Iloc(sl, i))

\* range(1, min(cross_confirm_bars + 1, len(ma_fast_line))): the stop value
LoopStopShort(bars, n) == Min(bars, n)
LoopStop(bars, n) == Min(bars + 1, n)

NoCross == [golden_cross |-> FALSE, death_cross |-> FALSE, cross_bars_ago |-> None]

\* the same loop without its break statements: every bar of the window is
\* classified and the last crossover found overwrites cross_bars_ago
RECURSIVE CrossLoopNoBreak(_, _, _, _)
CrossLoopNoBreak(fl, sl, i, stop) ==
    IF i >= stop THEN NoCross
    ELSE LET rest == CrossLoopNoBreak(fl, sl, i + 1, stop) IN
         IF AnyNaAt(fl, sl, i) THEN rest
         ELSE IF GoldenCrossAt(fl, sl, i)
              THEN [rest EXCEPT !.golden_cross = TRUE,
                                !.cross_bars_ago = IF rest.cross_bars_ago = None
                                                   THEN Some(i) ELSE @]
         ELSE IF DeathCrossAt(fl, sl, i)
              THEN [rest EXCEPT !.death_cross = TRUE,
                                !.cross_bars_ago = IF rest.cross_bars_ago = None
                                                   THEN Some(i) ELSE @]
         ELSE rest

\* the for loop, from i up to stop - 1, leaving at the first crossover
RECURSIVE CrossLoop(_, _, _, _)
CrossLoop(fl, sl, i, stop) ==
    IF i >= stop THEN NoCross
    ELSE IF AnyNaAt(fl, sl, i) THEN CrossLoop(fl, sl, i + 1, stop)
    ELSE IF GoldenCrossAt(fl, sl, i)
         THEN [golden_cross |-> TRUE, death_cross |-> FALSE, cross_bars_ago |-> Some(i)]
    ELSE IF DeathCrossAt(fl, sl, i)
         THEN [golden_cross |-> FALSE, death_cross |-> TRUE, cross_bars_ago |-> Some(i)]
    ELSE CrossLoop(fl, sl, i + 1, stop)

FindCross(fl, sl, bars) == CrossLoop(fl, sl, 1, LoopStop(bars, Len(fl)))

\* the values of i for which the loop went past its isna test and evaluated
\* the golden-cross and death-cross conditions
RECURSIVE ClassifiedInLoop(_, _, _, _)
ClassifiedInLoop(fl, sl, i, stop) ==
    IF i >= stop THEN {}
    ELSE IF AnyNaAt(fl, sl, i) THEN ClassifiedInLoop(fl, sl, i + 1, stop)
    ELSE IF GoldenCrossAt(fl, sl, i) \/ DeathCrossAt(fl, sl, i) THEN {i}
    ELSE {i} \cup ClassifiedInLoop(fl, sl, i + 1, stop)

\* percentage |a - b| / b * 100 as a fraction, 0 when b is not positive
PctDistance(a, b) ==
    IF b[1] > 0
    THEN <<Abs(a[1] * b[2] - b[1] * a[2]) * 100, b[1] * a[2]>>
    ELSE <<0, 1>>

\* golden-cross position filter: TRUE when the signal is kept
GoldenKept(info, flt, fast, slow) ==
    IF flt = AboveMA(fast) THEN info.price_above_fast
    ELSE IF flt = AboveMA(slow) THEN info.price_above_slow
    ELSE IF flt = AboveBoth THEN info.price_above_fast /\ info.price_above_slow
    ELSE IF flt = AboveMANear(fast)
         THEN ~(~info.price_above_fast \/ Gt(info.price_deviation_fast, <<3, 1>>))
    ELSE IF flt = AboveMANear(slow)
         THEN ~(~info.price_above_slow \/ Gt(info.price_deviation_slow, <<3, 1>>))
    ELSE TRUE

\* death-cross position filter: TRUE when the signal is kept
DeathKept(info, flt, fast, slow) ==
    IF flt = BelowMA(fast) THEN ~info.price_above_fast
    ELSE IF flt = BelowMA(slow) THEN ~info.price_above_slow
    ELSE IF flt = BelowBoth THEN ~(info.price_above_fast \/ info.price_above_slow)
    ELSE IF flt = BelowMANear(fast)
         THEN ~(info.price_above_fast \/ Gt(info.price_deviation_fast, <<3, 1>>))
    ELSE IF flt = BelowMANear(slow)
         THEN ~(info.price_above_slow \/ Gt(info.price_deviation_slow, <<3, 1>>))
    ELSE TRUE

ApplyPriceFilter(info, enable, gflt, dflt, fast, slow) ==
    IF ~enable THEN info
    ELSE [info EXCEPT
            !.golden_cross = @ /\ GoldenKept(info, gflt, fast, slow),
            !.death_cross = @ /\ DeathKept(info, dflt, fast, slow)]

SignalInfo(close, fast, slow, bars) ==
    LET fl == RollingMean(close, fast)
        sl == RollingMean(close, slow)
        n == Len(close)
        price == <<close[n], 1>>
        cross == FindCross(fl, sl, bars)
    IN  [ma_fast_current |-> fl[n],
         ma_slow_current |-> sl[n],
         ma_fast_period |-> fast,
         ma_slow_period |-> slow,
         price_current |-> close[n],
         golden_cross |-> cross.golden_cross,
         death_cross |-> cross.death_cross,
         cross_bars_ago |-> cross.cross_bars_ago,
         ma_distance |-> PctDistance(fl[n], sl[n]),
         price_above_fast |-> Gt(price, fl[n]),
         price_above_slow |-> Gt(price, sl[n]),
         price_deviation_fast |-> PctDistance(price, fl[n]),
         price_deviation_slow |-> PctDistance(price, sl[n])]

\* the pairs one call of calculate_dual_ma_signals classifies: none when it
\* returns before the loop
ClassifiedPairs(d, fast, slow, bars) ==
    LET close == CloseSeries(d)
        fl == RollingMean(close, fast)
        sl == RollingMean(close, slow)
    IN  IF Len(d) < MinCandlesNeeded(fast, slow) THEN {}
        ELSE IF AllNa(fl) \/ AllNa(sl) THEN {}
        ELSE ClassifiedInLoop(fl, sl, 1, LoopStop(bars, Len(fl)))

\* returns (signal_info or None, candle_count)
calculate_dual_ma_signals(d, fast, slow, bars, enable, gflt, dflt) ==
    LET candle_count == Len(d)
        close == CloseSeries(d)
    IN  IF candle_count < MinCandlesNeeded(fast, slow)
        THEN [signal_info |-> None, candle_count |-> candle_count]
        ELSE IF AllNa(RollingMean(close, fast)) \/ AllNa(RollingMean(close, slow))
        THEN [signal_info |-> None, candle_count |-> candle_count]
        ELSE [signal_info |->
                Some(ApplyPriceFilter(SignalInfo(close, fast, slow, bars),
                                      enable, gflt, dflt, fast, slow)),
              candle_count |-> candle_count]

-----------------------------------------------------------------------------
(* The market data client *)

MAX_WORKERS == 10

GOLDEN == "golden_signal"
DEATH == "death_signal"

EmptyDataFrame == <<>>

\* answers of the candles endpoint
TransportError == [transport |-> "error", code |-> "", payload |-> "none", data |-> <<>>]
ApiError == [transport |-> "ok", code |-> "40034", payload |-> "none", data |-> <<>>]
Malformed == [transport |-> "ok", code |-> "00000", payload |-> "malformed", data |-> <<>>]
Candles(rows) == [transport |-> "ok", code |-> "00000", payload |-> "rows", data |-> rows]

\* df.sort_values("ts").reset_index(drop=True), as an insertion sort
RECURSIVE InsertByTs(_, _)
InsertByTs(sorted, row) ==
    IF sorted = <<>> THEN <<row>>
    ELSE IF sorted[Len(sorted)].ts <= row.ts THEN Append(sorted, row)
    ELSE Append(InsertByTs(SubSeq(sorted, 1, Len(sorted) - 1), row), sorted[Len(sorted)])

RECURSIVE SortByTs(_)
SortByTs(rows) ==
    IF rows = <<>> THEN <<>>
    ELSE InsertByTs(SortByTs(SubSeq(rows, 1, Len(rows) - 1)), rows[Len(rows)])

\* a fetch_candles whose request sits outside the try block
fetch_candles_unguarded(r) ==
    IF r.transport # "ok" THEN [raised |-> TRUE, df |-> EmptyDataFrame]
    ELSE IF r.code # "00000" THEN [raised |-> FALSE, df |-> EmptyDataFrame]
    ELSE IF r.payload # "rows" THEN [raised |-> FALSE, df |-> EmptyDataFrame]
    ELSE [raised |-> FALSE, df |-> SortByTs(r.data)]

\* fetch_candles: every failure inside the try block becomes an empty frame
fetch_candles(r) ==
    IF r.transport # "ok" THEN [raised |-> FALSE, df |-> EmptyDataFrame]
    ELSE IF r.code # "00000" THEN [raised |-> FALSE, df |-> EmptyDataFrame]
    ELSE IF r.payload # "rows" THEN [raised |-> FALSE, df |-> EmptyDataFrame]
    ELSE [raised |-> FALSE, df |-> SortByTs(r.data)]

\* df["symbol"] = symbol
WithSymbolColumn(d, symbol) ==
    [i \in 1..Len(d) |-> [ts |-> d[i].ts, close |-> d[i].close, symbol |-> symbol]]

fetch_candles_wrapper(symbol, r) ==
    LET got == fetch_candles(r) IN
    [raised |-> got.raised,
     symbol |-> symbol,
     df |-> IF got.df # EmptyDataFrame THEN WithSymbolColumn(got.df, symbol) ELSE got.df]

\* the first of the names present in the item, 0 when none is
FirstField(item, names) ==
    IF \E i \in 1..Len(names) : names[i] \in DOMAIN item
    THEN item[names[CHOOSE i \in 1..Len(names) :
                 /\ names[i] \in DOMAIN item
                 /\ \A j \in 1..(i - 1) : names[j] \notin DOMAIN item]]
    ELSE 0

TickerOf(item) ==
    [change24h |-> FirstField(item, <<"change24h", "chgUtc", "changeUtc24h">>) * 100,
     volume |-> FirstField(item, <<"baseVolume", "baseVol", "vol24h">>),
     price |-> FirstField(item, <<"close", "last", "lastPr">>)]

\* the dict built item by item: a later item of the same symbol overwrites
fetch_all_tickers(r) ==
    IF r.transport # "ok" \/ r.code # "00000" \/ r.payload # "rows" THEN <<>>
    ELSE LET named == {i \in 1..Len(r.data) :
                         "symbol" \in DOMAIN r.data[i] /\ r.data[i].symbol # 0}
             syms == {r.data[i].symbol : i \in named}
             last(sym) == CHOOSE i \in named :
                             /\ r.data[i].symbol = sym
                             /\ \A j \in named : r.data[j].symbol = sym => j <= i
         IN  [sym \in syms |-> TickerOf(r.data[last(sym)])]

\* a default that no volume threshold accepts
DefaultTickerNoVolume == [change24h |-> 0, volume |-> 0 - 1, price |-> 0]

DefaultTicker == [change24h |-> 0, volume |-> 0, price |-> 0]

\* tickers.get(symbol, default)
TickerGet(t, symbol) == IF symbol \in DOMAIN t THEN t[symbol] ELSE DefaultTicker

-----------------------------------------------------------------------------
(* scan_symbols: dict helpers, the detection loop body *)

DictKeys(d) == {d[i][1] : i \in 1..Len(d)}
DictGet(d, k) == d[CHOOSE i \in 1..Len(d) : d[i][1] = k][2]
\* d[k] = v: a new key goes last, an existing key keeps its place
DictSet(d, k, v) ==
    IF k \in DictKeys(d)
    THEN [i \in 1..Len(d) |-> IF d[i][1] = k THEN <<k, v>> ELSE d[i]]
    ELSE Append(d, <<k, v>>)
DictKeyList(d) == [i \in 1..Len(d) |-> d[i][1]]

\* round(x, 2) of a fraction, as hundredths
Round2(x) == <<(200 * x[1] + x[2]) \div (2 * x[2]), 100>>

Note(candle_count, fast, slow, enable, flt) ==
    [few_candles |-> candle_count < MinCandlesNeeded(fast, slow) + 20,
     filter |-> IF enable /\ flt # NoRequirement THEN flt ELSE NoRequirement]

ResultRecord(symbol, kind, info, candle_count, ticker_data, note) ==
    [symbol |-> symbol,
     signal_type |-> kind,
     change_pct |-> Round2(<<ticker_data.change24h, 1>>),
     cross_bars_ago |-> info.cross_bars_ago,
     price_above_fast |-> info.price_above_fast,
     price_above_slow |-> info.price_above_slow,
     ma_distance |-> Round2(info.ma_distance),
     k_lines |-> candle_count,
     note |-> note,
     volume |-> ticker_data.volume,
     price |-> ticker_data.price,
     ma_fast_value |-> info.ma_fast_current,
     ma_slow_value |-> info.ma_slow_current,
     ma_fast_period |-> info.ma_fast_period,
     ma_slow_period |-> info.ma_slow_period,
     price_deviation_fast |-> Round2(info.price_deviation_fast),
     price_deviation_slow |-> Round2(info.price_deviation_slow)]

\* the same pass with a golden cross recorded whether or not golden signals
\* were asked for
LoopBodyAnyGolden(symbol, d, tick, types, minvol, fast, slow, bars, enable, gflt, dflt) ==
    LET ret == calculate_dual_ma_signals(d, fast, slow, bars, enable, gflt, dflt)
        ticker_data == TickerGet(tick, symbol)
    IN  IF ret.signal_info = None
        THEN [insufficient |-> <<symbol>>, found |-> <<>>]
        ELSE IF ticker_data.volume < minvol
        THEN [insufficient |-> <<>>, found |-> <<>>]
        ELSE LET info == ret.signal_info[1] IN
             IF info.golden_cross
             THEN [insufficient |-> <<>>,
                   found |-> <<ResultRecord(symbol, "golden", info, ret.candle_count,
                                  ticker_data,
                                  Note(ret.candle_count, fast, slow, enable, gflt))>>]
             ELSE IF info.death_cross /\ DEATH \in types
             THEN [insufficient |-> <<>>,
                   found |-> <<ResultRecord(symbol, "death", info, ret.candle_count,
                                  ticker_data,
                                  Note(ret.candle_count, fast, slow, enable, dflt))>>]
             ELSE [insufficient |-> <<>>, found |-> <<>>]

\* one pass of "for symbol in symbols" over the series d fetched for symbol:
\* what it appends to insufficient_data and to results
LoopBody(symbol, d, tick, types, minvol, fast, slow, bars, enable, gflt, dflt) ==
    LET ret == calculate_dual_ma_signals(d, fast, slow, bars, enable, gflt, dflt)
        ticker_data == TickerGet(tick, symbol)
    IN  IF ret.signal_info = None
        THEN [insufficient |-> <<symbol>>, found |-> <<>>]
        ELSE IF ticker_data.volume < minvol
        THEN [insufficient |-> <<>>, found |-> <<>>]
        ELSE LET info == ret.signal_info[1] IN
             IF info.golden_cross /\ GOLDEN \in types
             THEN [insufficient |-> <<>>,
                   found |-> <<ResultRecord(symbol, "golden", info, ret.candle_count,
                                  ticker_data,
                                  Note(ret.candle_count, fast, slow, enable, gflt))>>]
             ELSE IF info.death_cross /\ DEATH \in types
             THEN [insufficient |-> <<>>,
                   found |-> <<ResultRecord(symbol, "death", info, ret.candle_count,
                                  ticker_data,
                                  Note(ret.candle_count, fast, slow, enable, dflt))>>]
             ELSE [insufficient |-> <<>>, found |-> <<>>]

\* the filter predicates one pass of the loop evaluates for an instrument
\* with enough data and their outcomes, in order of evaluation, had the
\* direction test been the first and the position test the last
FilterLogDirectionFirst(symbol, ret, ticker_data, types, minvol, enable) ==
    IF ret.signal_info = None THEN <<>>
    ELSE LET info == ret.signal_info[1]
             direction == \/ info.golden_cross /\ GOLDEN \in types
                          \/ info.death_cross /\ DEATH \in types
             volume == ~(ticker_data.volume < minvol)
         IN  <<[symbol |-> symbol, filter |-> "direction", passed |-> direction]>>
             \o (IF direction
                 THEN <<[symbol |-> symbol, filter |-> "volume", passed |-> volume]>>
                 ELSE <<>>)
             \o (IF direction /\ volume /\ enable /\ info.cross_bars_ago # None
                 THEN <<[symbol |-> symbol, filter |-> "position", passed |-> TRUE]>>
                 ELSE <<>>)

\* the filter predicates one pass of the loop evaluates and their outcomes,
\* in order of evaluation: the position filter inside the detector when it
\* is enabled and a crossover was found (it clears the flag and leaves
\* cross_bars_ago), then the volume test for every signal_info that is not
\* None, then the direction test behind the volume test's continue
FilterLog(symbol, ret, ticker_data, types, minvol, enable) ==
    IF ret.signal_info = None THEN <<>>
    ELSE LET info == ret.signal_info[1]
             position == info.golden_cross \/ info.death_cross
             volume == ~(ticker_data.volume < minvol)
             direction == \/ info.golden_cross /\ GOLDEN \in types
                          \/ (~info.golden_cross \/ GOLDEN \notin types)
                             /\ info.death_cross /\ DEATH \in types
         IN  (IF enable /\ info.cross_bars_ago # None
              THEN <<[symbol |-> symbol, filter |-> "position", passed |-> position]>>
              ELSE <<>>)
             \o <<[symbol |-> symbol, filter |-> "volume", passed |-> volume]>>
             \o (IF volume
                 THEN <<[symbol |-> symbol, filter |-> "direction", passed |-> direction]>>
                 ELSE <<>>)

\* the instruments the detection loop visits, in its order
LoopOrderByArrival(syms, data) == DictKeyList(data)
LoopOrder(syms, data) == syms

-----------------------------------------------------------------------------
(* scan_symbols: the steps *)

NoFuture == [state |-> "unsubmitted", raised |-> FALSE, symbol |-> 0, df |-> EmptyDataFrame]

ScanIdle ==
    /\ symbols = <<>>
    /\ responses = <<>>
    /\ ticker_response = TransportError
    /\ signal_types = {}
    /\ min_volume = 0
    /\ tickers = <<>>
    /\ futures = <<>>
    /\ requests_sent = <<>>
    /\ candle_data = <<>>
    /\ processed = 0
    /\ idx = 0
    /\ insufficient_data = <<>>
    /\ results = <<>>
    /\ scan_stats = None
    /\ ticker_requests = 0
    /\ evaluated = <<>>

\* state on entry of scan_symbols
ScanEntry ==
    /\ pc = "scan_tickers"
    /\ tickers = <<>>
    /\ futures = <<>>
    /\ requests_sent = [s \in {symbols[i] : i \in 1..Len(symbols)} |-> 0]
    /\ candle_data = <<>>
    /\ processed = 0
    /\ idx = 0
    /\ insufficient_data = <<>>
    /\ results = <<>>
    /\ scan_stats = None
    /\ ticker_requests = 0
    /\ evaluated = <<>>

\* the number of instruments taken from the fetched series
total_symbols_fetched == Len(candle_data)

total_symbols == Len(symbols)
InFlight == {i \in 1..Len(futures) : futures[i].state = "running"}
Pending == {i \in 1..Len(futures) : futures[i].state = "pending"}

\* tickers = fetch_all_tickers(base)
FetchTickers ==
    /\ pc = "scan_tickers"
    /\ ticker_requests' = ticker_requests + 1
    /\ tickers' = fetch_all_tickers(ticker_response)
    /\ pc' = "submit"
    /\ UNCHANGED <<paramVars, probeVars, mainVars, detectVars, scanInputVars, poolVars,
                   candle_data, processed, idx, insufficient_data, results, scan_stats,
                   evaluated>>

\* executor.submit(fetch_candles_wrapper, ...) for the next symbol
Submit ==
    /\ pc = "submit"
    /\ Len(futures) < total_symbols
    /\ futures' = Append(futures, [NoFuture EXCEPT !.state = "pending",
                                     !.symbol = symbols[Len(futures) + 1]])
    /\ UNCHANGED <<pc, paramVars, probeVars, mainVars, detectVars, scanInputVars,
                   requests_sent, scanVars>>

\* the list of futures is complete: as_completed starts
AwaitCompleted ==
    /\ pc = "submit"
    /\ Len(futures) = total_symbols
    /\ IF total_symbols = 0
       THEN pc' = "process" /\ idx' = 1
       ELSE pc' = "collect" /\ idx' = idx
    /\ UNCHANGED <<paramVars, probeVars, mainVars, detectVars, scanInputVars, poolVars,
                   tickers, candle_data, processed, insufficient_data, results,
                   scan_stats, ticker_requests, evaluated>>

\* a pool thread may take a work item
WorkerFreeUnbounded(inflight) == TRUE
WorkerFree(inflight) == Cardinality(inflight) < MAX_WORKERS

\* a pool thread takes the oldest queued work item and issues its request
StartFetch ==
    /\ Pending # {}
    /\ WorkerFree(InFlight)
    /\ LET i == CHOOSE j \in Pending : \A k \in Pending : j <= k IN
         /\ futures' = [futures EXCEPT ![i].state = "running"]
         /\ requests_sent' = [requests_sent EXCEPT ![futures[i].symbol] = @ + 1]
    /\ UNCHANGED <<pc, paramVars, probeVars, mainVars, detectVars, scanInputVars, scanVars>>

\* what becomes of a work item when its call returns
AfterCallRetryEmpty(out) ==
    IF out.df = EmptyDataFrame THEN "pending" ELSE "finished"
AfterCall(out) == "finished"

\* fetch_candles_wrapper returns (or raises) in a pool thread
FinishFetch(i) ==
    /\ futures[i].state = "running"
    /\ LET out == fetch_candles_wrapper(futures[i].symbol, responses[futures[i].symbol]) IN
         futures' = [futures EXCEPT ![i] = [state |-> AfterCall(out),
                                            raised |-> out.raised,
                                            symbol |-> out.symbol,
                                            df |-> out.df]]
    /\ UNCHANGED <<pc, paramVars, probeVars, mainVars, detectVars, scanInputVars,
                   requests_sent, scanVars>>

\* the same without the emptiness test
CollectedAlways(data, fut) == DictSet(data, fut.symbol, fut.df)

\* candle_data after one pass of the as_completed loop
Collected(data, fut) ==
    IF fut.df # EmptyDataFrame THEN DictSet(data, fut.symbol, fut.df) ELSE data

\* one pass of "for future in as_completed(futures)"; future.result() re-raises
\* what the call raised, which leaves scan_symbols
Collect(i) ==
    /\ pc = "collect"
    /\ futures[i].state = "finished"
    /\ futures' = [futures EXCEPT ![i].state = "yielded"]
    /\ IF futures[i].raised
       THEN /\ pc' = "scan_raised"
            /\ UNCHANGED <<processed, candle_data, idx>>
       ELSE /\ processed' = processed + 1
            /\ candle_data' = Collected(candle_data, futures[i])
            /\ IF \A j \in 1..Len(futures) : j # i => futures[j].state = "yielded"
               THEN pc' = "process" /\ idx' = 1
               ELSE pc' = "collect" /\ idx' = idx
    /\ UNCHANGED <<paramVars, probeVars, mainVars, detectVars, scanInputVars, requests_sent,
                   tickers, insufficient_data, results, scan_stats, ticker_requests,
                   evaluated>>

\* one pass of the detection loop
ProcessSymbol ==
    /\ pc = "process"
    /\ idx <= Len(LoopOrder(symbols, candle_data))
    /\ LET symbol == LoopOrder(symbols, candle_data)[idx] IN
         IF symbol \notin DictKeys(candle_data)
         THEN UNCHANGED <<insufficient_data, results, evaluated>>
         ELSE LET d == DictGet(candle_data, symbol)
                  out == LoopBody(symbol, d, tickers,
                                  signal_types, min_volume, ma_fast, ma_slow,
                                  cross_confirm_bars, enable_price_filter,
                                  golden_price_filter, death_price_filter)
                  ret == calculate_dual_ma_signals(d, ma_fast, ma_slow,
                                  cross_confirm_bars, enable_price_filter,
                                  golden_price_filter, death_price_filter)
              IN  /\ insufficient_data' = insufficient_data \o out.insufficient
                  /\ results' = results \o out.found
                  /\ evaluated' = evaluated \o
                         FilterLog(symbol, ret, TickerGet(tickers, symbol),
                                   signal_types, min_volume, enable_price_filter)
    /\ idx' = idx + 1
    /\ UNCHANGED <<pc, paramVars, probeVars, mainVars, detectVars, scanInputVars, poolVars,
                   tickers, candle_data, processed, scan_stats, ticker_requests>>

\* scan_stats (scan_time left out) and the return
ReturnScan ==
    /\ pc = "process"
    /\ idx > Len(LoopOrder(symbols, candle_data))
    /\ scan_stats' = Some([total_symbols |-> total_symbols,
                           processed_symbols |-> Len(candle_data),
                           insufficient_data |-> Len(insufficient_data),
                           results_count |-> Len(results),
                           min_candles_needed |-> MinCandlesNeeded(ma_fast, ma_slow)])
    /\ pc' = "scan_done"
    /\ UNCHANGED <<paramVars, probeVars, mainVars, detectVars, scanInputVars, poolVars,
                   tickers, candle_data, processed, idx, insufficient_data, results,
                   ticker_requests, evaluated>>

NextScan ==
    \/ FetchTickers
    \/ Submit
    \/ AwaitCompleted
    \/ StartFetch
    \/ \E i \in 1..Len(futures) : FinishFetch(i)
    \/ \E i \in 1..Len(futures) : Collect(i)
    \/ ProcessSymbol
    \/ ReturnScan

-----------------------------------------------------------------------------
(* The endpoint prober *)

PROBE_TRIES == 3

\* answers to the one-candle request of ping_endpoint
PingTimeout == [transport |-> "error", status |-> 0, body |-> "none", code |-> ""]
PingHttpError == [transport |-> "ok", status |-> 500, body |-> "json", code |-> "00000"]
PingNotJson == [transport |-> "ok", status |-> 200, body |-> "text", code |-> ""]
PingApiError == [transport |-> "ok", status |-> 200, body |-> "json", code |-> "40034"]
PingOk == [transport |-> "ok", status |-> 200, body |-> "json", code |-> "00000"]
NotPinged == [transport |-> "none", status |-> 0, body |-> "none", code |-> ""]

PingAnswers == {PingTimeout, PingHttpError, PingNotJson, PingApiError, PingOk}

\* a ping that looks at the HTTP status alone
ping_endpoint_status_only(a) ==
    IF a.transport # "ok" THEN FALSE ELSE a.status = 200

\* r.status_code == 200 and r.json().get("code") == "00000"; False on any exception
ping_endpoint(a) ==
    IF a.transport # "ok" THEN FALSE
    ELSE IF a.status # 200 THEN FALSE
    ELSE IF a.body # "json" THEN FALSE
    ELSE a.code = "00000"

ProbeIdle ==
    /\ endpoints = <<>>
    /\ ep_idx = 0
    /\ attempt = 0
    /\ pings = <<>>
    /\ last_answer = <<>>
    /\ base = None

\* state on entry of get_working_endpoint
ProbeEntry ==
    /\ pc = "probe"
    /\ ep_idx = 1
    /\ attempt = 0
    /\ pings = [i \in 1..Len(endpoints) |-> 0]
    /\ last_answer = [i \in 1..Len(endpoints) |-> NotPinged]
    /\ base = None

\* one pass of the inner loop: ping the current candidate; return it on
\* success, otherwise sleep and move on, raising after the last candidate's
\* last try
Ping(a) ==
    /\ pc = "probe"
    /\ ep_idx <= Len(endpoints)
    /\ pings' = [pings EXCEPT ![ep_idx] = @ + 1]
    /\ last_answer' = [last_answer EXCEPT ![ep_idx] = a]
    /\ IF ping_endpoint(a)
       THEN /\ base' = Some(endpoints[ep_idx])
            /\ pc' = "probe_returned"
            /\ UNCHANGED <<ep_idx, attempt>>
       ELSE /\ base' = base
            /\ IF attempt + 1 < PROBE_TRIES
               THEN /\ attempt' = attempt + 1
                    /\ ep_idx' = ep_idx
                    /\ pc' = pc
               ELSE /\ attempt' = 0
                    /\ ep_idx' = ep_idx + 1
                    /\ pc' = IF ep_idx + 1 > Len(endpoints) THEN "probe_raised" ELSE pc
    /\ UNCHANGED <<endpoints, paramVars, detectVars, scanInputVars, poolVars, scanVars,
                   mainVars>>

NextProbe == \E a \in PingAnswers : Ping(a)

\* main has not been entered
MainIdle ==
    /\ listing_response = TransportError
    /\ listing_requests = 0
    /\ probe_calls = 0

MaxEndpoints == 3   \* longest candidate list

InitProbe ==
    /\ \E n \in 1..MaxEndpoints : endpoints = [i \in 1..n |-> i]
    /\ ProbeEntry
    /\ ma_fast = 0
    /\ ma_slow = 0
    /\ cross_confirm_bars = 0
    /\ enable_price_filter = FALSE
    /\ golden_price_filter = NoRequirement
    /\ death_price_filter = NoRequirement
    /\ df = <<>>
    /\ detect_ret = None
    /\ compared = {}
    /\ ScanIdle
    /\ MainIdle

SpecProbe == InitProbe /\ [][NextProbe]_vars

-----------------------------------------------------------------------------
(* main: validation of the request, endpoint selection, instrument listing, *)
(* scan, and the except clause around the three                             *)

ENDPOINTS == <<1>>      \* Config.ENDPOINTS holds one candidate

\* the two tests behind "if scan_pressed", without the test of the periods
ValidRequestNoPeriodCheck(types, fast, slow) == types # {}

\* "if not signal_types: return" and "if ma_fast >= ma_slow: return"
ValidRequest(types, fast, slow) ==
    IF types = {} THEN FALSE
    ELSE IF fast >= slow THEN FALSE
    ELSE TRUE

\* the contracts endpoint's answer listing the given instruments
Contracts(syms) ==
    [transport |-> "ok", code |-> "00000", payload |-> "rows",
     data |-> [i \in 1..Len(syms) |-> [symbol |-> syms[i]]]]

\* a listing that answers a failure with an empty list
get_usdt_symbols_lenient(r) ==
    IF r.transport # "ok" \/ r.code # "00000" \/ r.payload # "rows"
    THEN [raised |-> FALSE, symbols |-> <<>>]
    ELSE [raised |-> FALSE, symbols |-> [i \in 1..Len(r.data) |-> r.data[i].symbol]]

\* get_usdt_symbols: the request failing, a code other than "00000" and a
\* body without "data" all leave through "raise"
get_usdt_symbols(r) ==
    IF r.transport # "ok" THEN [raised |-> TRUE, symbols |-> <<>>]
    ELSE IF r.code # "00000" THEN [raised |-> TRUE, symbols |-> <<>>]
    ELSE IF r.payload # "rows" THEN [raised |-> TRUE, symbols |-> <<>>]
    ELSE [raised |-> FALSE, symbols |-> [i \in 1..Len(r.data) |-> r.data[i].symbol]]

\* the button was pressed: the two checks, then the call of
\* get_working_endpoint
Validate ==
    /\ pc = "main"
    /\ IF ValidRequest(signal_types, ma_fast, ma_slow)
       THEN /\ pc' = "probe"
            /\ probe_calls' = probe_calls + 1
            /\ ep_idx' = 1
            /\ attempt' = 0
            /\ pings' = [i \in 1..Len(endpoints) |-> 0]
            /\ last_answer' = [i \in 1..Len(endpoints) |-> NotPinged]
       ELSE /\ pc' = "rejected"
            /\ UNCHANGED <<probe_calls, ep_idx, attempt, pings, last_answer>>
    /\ UNCHANGED <<endpoints, base, listing_response, listing_requests, paramVars,
                   detectVars, scanInputVars, poolVars, scanVars>>

\* symbols = get_usdt_symbols(base), then the entry of scan_symbols
GetSymbols ==
    /\ pc = "probe_returned"
    /\ listing_requests' = listing_requests + 1
    /\ LET got == get_usdt_symbols(listing_response) IN
         IF got.raised
         THEN /\ pc' = "listing_raised"
              /\ UNCHANGED <<symbols, requests_sent>>
         ELSE /\ pc' = "scan_tickers"
              /\ symbols' = got.symbols
              /\ requests_sent' =
                     [s \in {got.symbols[i] : i \in 1..Len(got.symbols)} |-> 0]
    /\ UNCHANGED <<responses, ticker_response, signal_types, min_volume, futures,
                   listing_response, probe_calls, paramVars, detectVars, probeVars,
                   scanVars>>

\* "except Exception as e": the error is shown and main goes on to the footer
CatchError ==
    /\ pc \in {"probe_raised", "listing_raised", "scan_raised"}
    /\ pc' = "main_failed"
    /\ UNCHANGED <<paramVars, detectVars, scanInputVars, poolVars, scanVars, probeVars,
                   mainVars>>

\* scan_symbols returned: the statistics and the results are displayed
ShowResults ==
    /\ pc = "scan_done"
    /\ pc' = "main_done"
    /\ UNCHANGED <<paramVars, detectVars, scanInputVars, poolVars, scanVars, probeVars,
                   mainVars>>

NextMain ==
    \/ Validate
    \/ NextProbe
    \/ GetSymbols
    \/ NextScan
    \/ CatchError
    \/ ShowResults

-----------------------------------------------------------------------------
(* The detector on its own: inputs drawn from a bounded family of series   *)

MinTrend == 6       \* shortest warm-up run of equal steps, besides none
MaxTrend == 11      \* longest warm-up run of equal steps
MaxTail == 4        \* free bars after the run
StartPrice == 20    \* price before the first bar

Steps == {0 - 1, 0, 1}
PeriodPairs == {<<1, 2>>, <<2, 3>>, <<2, 2>>, <<3, 2>>}
LookbackChoices == {1, 3, 5}

RECURSIVE Walk(_, _)
\* closes reached from StartPrice by the given steps
Walk(steps, i) ==
    IF i = 0 THEN StartPrice ELSE Walk(steps, i - 1) + steps[i]

SeriesOf(steps) == [i \in 1..Len(steps) |-> [ts |-> i, close |-> Walk(steps, i)]]

TrendSteps ==
    {[i \in 1..n |-> s] : n \in {0} \cup (MinTrend..MaxTrend), s \in {0 - 1, 1}}
TailSteps == UNION {[1..n -> Steps] : n \in 0..MaxTail}

FilterConfigs(fast, slow) ==
    {<<FALSE, NoRequirement, NoRequirement>>,
     <<TRUE, AboveBoth, BelowBoth>>,
     <<TRUE, AboveMANear(fast), BelowMA(slow)>>}

InitParams ==
    /\ \E p \in PeriodPairs : ma_fast = p[1] /\ ma_slow = p[2]
    /\ cross_confirm_bars \in LookbackChoices
    /\ \E c \in FilterConfigs(ma_fast, ma_slow) :
         /\ enable_price_filter = c[1]
         /\ golden_price_filter = c[2]
         /\ death_price_filter = c[3]

InitDetect ==
    /\ pc = "detect"
    /\ InitParams
    /\ \E t \in TrendSteps, u \in TailSteps : df = SeriesOf(t \o u)
    /\ detect_ret = None
    /\ compared = {}
    /\ ScanIdle
    /\ ProbeIdle
    /\ MainIdle

CallDetect ==
    /\ pc = "detect"
    /\ detect_ret' = Some(calculate_dual_ma_signals(df, ma_fast, ma_slow,
                            cross_confirm_bars, enable_price_filter,
                            golden_price_filter, death_price_filter))
    /\ compared' = ClassifiedPairs(df, ma_fast, ma_slow, cross_confirm_bars)
    /\ pc' = "detect_returned"
    /\ UNCHANGED <<df, paramVars, probeVars, mainVars, scanInputVars, poolVars,
                   scanVars>>

NextDetect == CallDetect

SpecDetect == InitDetect /\ [][NextDetect]_vars

\* the detector called with lookbacks beyond the slider's range and beyond
\* the 10 bars the length check adds to the longer period
WarmupPeriodPairs == {<<1, 2>>, <<2, 3>>}
WarmupLookbacks == {5, 11, 12, 14}

InitWarmup ==
    /\ pc = "detect"
    /\ \E p \in WarmupPeriodPairs : ma_fast = p[1] /\ ma_slow = p[2]
    /\ cross_confirm_bars \in WarmupLookbacks
    /\ enable_price_filter = FALSE
    /\ golden_price_filter = NoRequirement
    /\ death_price_filter = NoRequirement
    /\ \E t \in TrendSteps, u \in TailSteps : df = SeriesOf(t \o u)
    /\ detect_ret = None
    /\ compared = {}
    /\ ScanIdle
    /\ ProbeIdle
    /\ MainIdle

SpecWarmup == InitWarmup /\ [][NextDetect]_vars

-----------------------------------------------------------------------------
(* scan_symbols on its own: a short instrument list with every combination *)
(* of answers, and a list longer than the pool                             *)

ScanSymbols == 2    \* instruments of the short list
PoolExtra == 1      \* instruments beyond MAX_WORKERS in the long list
ShortLen == 5       \* bars of the series that is too short

Reverse(rows) == [i \in 1..Len(rows) |-> rows[Len(rows) - i + 1]]

\* n bars moving one way and turning on the last bar
TurnSeries(dir, n) == SeriesOf([i \in 1..n |-> IF i < n THEN dir ELSE 0 - dir])
ShortSeries == SeriesOf([i \in 1..ShortLen |-> 1])

\* the exchange sends the newest bar first in the third answer
CandleAnswers(n) ==
    {TransportError, ApiError, Malformed,
     Candles(ShortSeries),
     Candles(TurnSeries(0 - 1, n)),
     Candles(Reverse(TurnSeries(1, n)))}

TickerList(items) == [transport |-> "ok", code |-> "00000", payload |-> "rows", data |-> items]

\* the exchange names the ticker fields differently from item to item, lists
\* no ticker for the second instrument and one item without a symbol
TickerItems ==
    <<[symbol |-> 1, change24h |-> 2, baseVolume |-> 10, lastPr |-> 20],
      [symbol |-> 3, chgUtc |-> 0 - 1, vol24h |-> 3, close |-> 7],
      [change24h |-> 5, baseVolume |-> 9]>>

PoolProfile ==
    [types |-> {GOLDEN, DEATH}, minvol |-> 0, tick |-> TickerList(TickerItems),
     filter |-> <<FALSE, NoRequirement, NoRequirement>>]

ScanProfiles ==
    {PoolProfile,
     [types |-> {GOLDEN}, minvol |-> 5, tick |-> TickerList(TickerItems),
      filter |-> <<TRUE, AboveBoth, BelowBoth>>],
     [types |-> {DEATH}, minvol |-> 0, tick |-> TransportError,
      filter |-> <<FALSE, NoRequirement, NoRequirement>>],
     [types |-> {GOLDEN, DEATH}, minvol |-> 5, tick |-> TickerList(TickerItems),
      filter |-> <<TRUE, AboveBoth, BelowBoth>>],
     [types |-> {GOLDEN}, minvol |-> 0, tick |-> TickerList(TickerItems),
      filter |-> <<FALSE, NoRequirement, NoRequirement>>]}

InitScanParams(profiles) ==
    /\ ma_fast = 1
    /\ ma_slow = 2
    /\ cross_confirm_bars = 2
    /\ \E p \in profiles :
         /\ signal_types = p.types
         /\ min_volume = p.minvol
         /\ ticker_response = p.tick
         /\ enable_price_filter = p.filter[1]
         /\ golden_price_filter = p.filter[2]
         /\ death_price_filter = p.filter[3]

InitScan ==
    /\ InitScanParams(ScanProfiles)
    /\ symbols = [i \in 1..ScanSymbols |-> i]
    /\ responses \in [1..ScanSymbols -> CandleAnswers(MinCandlesNeeded(ma_fast, ma_slow))]
    /\ df = <<>>
    /\ detect_ret = None
    /\ compared = {}
    /\ ProbeIdle
    /\ MainIdle
    /\ ScanEntry

SpecScan == InitScan /\ [][NextScan]_vars

\* answers of the long list: one crossover, one short series, every failure
PoolAnswer(i, n) ==
    IF i = 1 THEN Candles(TurnSeries(0 - 1, n))
    ELSE IF i = 3 THEN Candles(ShortSeries)
    ELSE IF i % 4 = 0 THEN Malformed
    ELSE IF i % 4 = 1 THEN ApiError
    ELSE IF i % 4 = 2 THEN TransportError
    ELSE Candles(<<>>)

InitPool ==
    /\ InitScanParams({PoolProfile})
    /\ symbols = [i \in 1..(MAX_WORKERS + PoolExtra) |-> i]
    /\ responses = [i \in 1..(MAX_WORKERS + PoolExtra) |->
                       PoolAnswer(i, MinCandlesNeeded(ma_fast, ma_slow))]
    /\ df = <<>>
    /\ detect_ret = None
    /\ compared = {}
    /\ ProbeIdle
    /\ MainIdle
    /\ ScanEntry

SpecPool == InitPool /\ [][NextScan]_vars

\* fetch_candles on its own: every payload of up to MaxRows rows, rows in any
\* order and timestamps repeated
MaxRows == 3        \* rows of the longest payload
MaxTs == 3          \* latest timestamp
FetchCloses == {1, 2}

PayloadRows == [ts : 1..MaxTs, close : FetchCloses]
Payloads == UNION {[1..n -> PayloadRows] : n \in 0..MaxRows}

InitFetch ==
    /\ pc = "fetch"
    /\ \E r \in {TransportError, ApiError, Malformed} \cup {Candles(rows) : rows \in Payloads} :
          responses = <<r>>
    /\ symbols = <<1>>
    /\ ticker_response = TransportError
    /\ signal_types = {}
    /\ min_volume = 0
    /\ tickers = <<>>
    /\ futures = <<>>
    /\ requests_sent = <<0>>
    /\ candle_data = <<>>
    /\ processed = 0
    /\ idx = 0
    /\ insufficient_data = <<>>
    /\ results = <<>>
    /\ scan_stats = None
    /\ ticker_requests = 0
    /\ evaluated = <<>>
    /\ ma_fast = 0
    /\ ma_slow = 0
    /\ cross_confirm_bars = 0
    /\ enable_price_filter = FALSE
    /\ golden_price_filter = NoRequirement
    /\ death_price_filter = NoRequirement
    /\ df = <<>>
    /\ detect_ret = None
    /\ compared = {}
    /\ ProbeIdle
    /\ MainIdle

\* df = fetch_candles(base, symbol, granularity)
CallFetch ==
    /\ pc = "fetch"
    /\ requests_sent' = [requests_sent EXCEPT ![1] = @ + 1]
    /\ df' = fetch_candles(responses[1]).df
    /\ pc' = "fetch_returned"
    /\ UNCHANGED <<detect_ret, compared, futures, paramVars, probeVars, mainVars,
                   scanInputVars, scanVars>>

NextFetch == CallFetch

SpecFetch == InitFetch /\ [][NextFetch]_vars

\* a press of the scan button: every kind of request, valid or not, every
\* answer to the listing, the candle answers of the long list
MainSymbols == 2    \* instruments of the longest listing

MainPeriodPairs == {<<1, 2>>, <<2, 2>>, <<3, 2>>}
MainSignalTypes == {{}, {DEATH}, {GOLDEN, DEATH}}
ListingAnswers ==
    {TransportError, ApiError, Malformed}
        \cup {Contracts([i \in 1..n |-> i]) : n \in 0..MainSymbols}

InitMain ==
    /\ pc = "main"
    /\ \E p \in MainPeriodPairs : ma_fast = p[1] /\ ma_slow = p[2]
    /\ signal_types \in MainSignalTypes
    /\ listing_response \in ListingAnswers
    /\ cross_confirm_bars = 2
    /\ enable_price_filter = FALSE
    /\ golden_price_filter = NoRequirement
    /\ death_price_filter = NoRequirement
    /\ min_volume = 0
    /\ ticker_response = TickerList(TickerItems)
    /\ responses = [i \in 1..MainSymbols |-> PoolAnswer(i, MinCandlesNeeded(1, 2))]
    /\ symbols = <<>>
    /\ endpoints = ENDPOINTS
    /\ ep_idx = 0
    /\ attempt = 0
    /\ pings = <<>>
    /\ last_answer = <<>>
    /\ base = None
    /\ listing_requests = 0
    /\ probe_calls = 0
    /\ df = <<>>
    /\ detect_ret = None
    /\ compared = {}
    /\ tickers = <<>>
    /\ futures = <<>>
    /\ requests_sent = <<>>
    /\ candle_data = <<>>
    /\ processed = 0
    /\ idx = 0
    /\ insufficient_data = <<>>
    /\ results = <<>>
    /\ scan_stats = None
    /\ ticker_requests = 0
    /\ evaluated = <<>>

SpecMain == InitMain /\ [][NextMain]_vars

-----------------------------------------------------------------------------
(* Statements about the detector *)

Returned == pc = "detect_returned"
Ret == detect_ret[1]
HasInfo == Returned /\ Ret.signal_info # None
Info == Ret.signal_info[1]
NBars == Len(df)

\* the simple moving average over the w bars ending at bar j (bars from 1)
Defined(w, j) == j >= w /\ j <= NBars
SMA(w, j) == <<SumRange(CloseSeries(df), j - w + 1, j), w>>
FastAbove(j) == Gt(SMA(ma_fast, j), SMA(ma_slow, j))
FastBelow(j) == Lt(SMA(ma_fast, j), SMA(ma_slow, j))
BothDefined(j) == Defined(ma_fast, j) /\ Defined(ma_slow, j)

\* the bar a crossover "k bars ago" is found at
BarOf(k) == NBars - k + 1
PairDefined(j) == j - 1 >= 1 /\ BothDefined(j - 1) /\ BothDefined(j)
BullishRule(j) == PairDefined(j) /\ ~FastAbove(j - 1) /\ FastAbove(j)
BearishRule(j) == PairDefined(j) /\ ~FastBelow(j - 1) /\ FastBelow(j)
Window == {k \in 1..cross_confirm_bars : BarOf(k) - 1 >= 1}
Qualifying == {k \in Window : BullishRule(BarOf(k)) \/ BearishRule(BarOf(k))}
Nearest == CHOOSE k \in Qualifying : \A m \in Qualifying : k <= m

\* C1: a series shorter than max(fast, slow) + 10 gets the insufficient-data
\* outcome: no signal record (so no direction), returned normally with the
\* series' own length as the candle count.
C1_ShortSeriesInsufficient ==
    (Returned /\ NBars < Max(ma_fast, ma_slow) + 10)
        => (Ret.signal_info = None /\ Ret.candle_count = NBars)

C1_Witness ==
    /\ Returned
    /\ NBars = Max(ma_fast, ma_slow) + 9
    /\ Ret.signal_info = None

\* C2: with position filtering disabled, a reported crossover k bars ago was
\* found at a bar that satisfies the rule of its direction, and when no bar of
\* the lookback window satisfies either rule no direction is reported.
C2_CrossoverRule ==
    (HasInfo /\ ~enable_price_filter) =>
        /\ Info.golden_cross =>
              /\ Info.cross_bars_ago # None
              /\ Info.cross_bars_ago[1] \in Window
              /\ BullishRule(BarOf(Info.cross_bars_ago[1]))
        /\ Info.death_cross =>
              /\ Info.cross_bars_ago # None
              /\ Info.cross_bars_ago[1] \in Window
              /\ BearishRule(BarOf(Info.cross_bars_ago[1]))
        /\ Qualifying = {} => (~Info.golden_cross /\ ~Info.death_cross)

C2_Witness ==
    /\ HasInfo /\ ~enable_price_filter
    /\ Info.death_cross
    /\ Info.cross_bars_ago = Some(3)
    /\ BearishRule(BarOf(3))

\* C3: nearest wins.  A result never has both flags set; a reported direction
\* is the one of the qualifying bar with the smallest bars-ago value, and with
\* position filtering disabled that nearest crossover is always reported.
C3_NearestWins ==
    HasInfo =>
        /\ ~(Info.golden_cross /\ Info.death_cross)
        /\ (Info.golden_cross \/ Info.death_cross) =>
              /\ Qualifying # {}
              /\ Info.cross_bars_ago = Some(Nearest)
              /\ Info.golden_cross = BullishRule(BarOf(Nearest))
              /\ Info.death_cross = BearishRule(BarOf(Nearest))
        /\ (~enable_price_filter /\ Qualifying # {}) =>
              (Info.golden_cross \/ Info.death_cross)

\* upward cross 4 bars ago, downward cross 1 bar ago, lookback 5: bearish only
C3_Witness ==
    /\ HasInfo /\ ~enable_price_filter
    /\ cross_confirm_bars = 5
    /\ BullishRule(BarOf(4))
    /\ BearishRule(BarOf(1))
    /\ Info.death_cross /\ ~Info.golden_cross
    /\ Info.cross_bars_ago = Some(1)

\* fast below slow at every valid bar up to the one k+1 bars from the end
\* (which is valid), fast above slow on the last k bars
CleanUpwardCross(k) ==
    /\ k >= 1
    /\ NBars - k >= 1
    /\ BothDefined(NBars - k)
    /\ \A j \in 1..(NBars - k) : BothDefined(j) => FastBelow(j)
    /\ \A j \in (NBars - k + 1)..NBars : FastAbove(j)

\* C4: on a series that crosses upward exactly k bars ago, the detector (no
\* position filter) reports bullish with bars-ago k when the lookback is at
\* least k, and no direction when the lookback is smaller than k.
C4_CleanCrossReported ==
    (HasInfo /\ ~enable_price_filter) =>
        \A k \in 1..NBars :
            CleanUpwardCross(k) =>
                IF cross_confirm_bars >= k
                THEN /\ Info.golden_cross /\ ~Info.death_cross
                     /\ Info.cross_bars_ago = Some(k)
                ELSE ~Info.golden_cross /\ ~Info.death_cross

C4_Witness ==
    /\ HasInfo /\ ~enable_price_filter
    /\ cross_confirm_bars = 3
    /\ CleanUpwardCross(2)
    /\ Info.golden_cross
    /\ Info.cross_bars_ago = Some(2)

\* the other half of C4: the cross lies outside the lookback window
C4_OutsideWindow ==
    /\ HasInfo /\ ~enable_price_filter
    /\ cross_confirm_bars = 1
    /\ CleanUpwardCross(2)
    /\ ~Info.golden_cross /\ ~Info.death_cross

-----------------------------------------------------------------------------
(* Statements about scan_symbols *)

SymbolSet == {symbols[i] : i \in 1..Len(symbols)}
FetchStageOver == pc \in {"process", "scan_done"}

\* the exchange answered the instrument's request with at least one candle
Answered(sym) ==
    /\ responses[sym].transport = "ok"
    /\ responses[sym].code = "00000"
    /\ responses[sym].payload = "rows"
    /\ responses[sym].data # <<>>

\* C5: at most MAX_WORKERS candle fetches are in flight at any time.
C5_InFlightBounded == Cardinality(InFlight) <= MAX_WORKERS

\* the pool is full while a submitted fetch waits in the queue
C5_Witness ==
    /\ Cardinality(InFlight) = MAX_WORKERS
    /\ Pending # {}
    /\ Len(symbols) > MAX_WORKERS

\* C6: no instrument's candles are requested twice, and once the fetch stage
\* is over every instrument has been requested exactly once, whatever its
\* request returned.
C6_OneAttemptEach ==
    /\ \A sym \in SymbolSet : requests_sent[sym] <= 1
    /\ FetchStageOver => \A sym \in SymbolSet : requests_sent[sym] = 1

C6_Witness ==
    /\ pc = "scan_done"
    /\ \E sym \in SymbolSet : responses[sym] = TransportError
    /\ \E sym \in SymbolSet : responses[sym] = Candles(<<>>) \/ responses[sym] = ApiError
    /\ \A sym \in SymbolSet : requests_sent[sym] = 1

FetchedSeries(sym) == WithSymbolColumn(SortByTs(responses[sym].data), sym)

\* what the detector and the filters make of an answered instrument
Outcome(sym) ==
    LoopBody(sym, FetchedSeries(sym), tickers, signal_types, min_volume, ma_fast,
             ma_slow, cross_confirm_bars, enable_price_filter, golden_price_filter,
             death_price_filter)

InSeq(x, seq) == \E i \in 1..Len(seq) : seq[i] = x

\* some step of scan_symbols or of a pool thread can be taken
CanProceed ==
    \/ pc \in {"scan_tickers", "submit", "process"}
    \/ /\ pc = "collect"
       /\ \/ InFlight # {}
          \/ Pending # {} /\ Cardinality(InFlight) < MAX_WORKERS
          \/ \E i \in 1..Len(futures) : futures[i].state = "finished"

\* C8: no failed fetch leaves scan_symbols as an exception or stops the scan
\* short of its return, and when it returns every instrument whose fetch
\* succeeded has gone through the detector and the filters.
C8_FailuresAbsorbed ==
    /\ pc # "scan_raised"
    /\ pc = "scan_done" \/ CanProceed
    /\ pc = "scan_done" =>
         \A sym \in SymbolSet : Answered(sym) =>
            /\ Outcome(sym).insufficient # <<>> => InSeq(sym, insufficient_data)
            /\ Outcome(sym).found # <<>> => InSeq(Outcome(sym).found[1], results)

C8_Witness ==
    /\ pc = "scan_done"
    /\ responses[1] = TransportError
    /\ Answered(2)
    /\ Len(results) = 1
    /\ results[1].symbol = 2

\* the lists a scan that visits the instruments in list order produces
RECURSIVE ExpectedResults(_)
ExpectedResults(n) ==
    IF n = 0 THEN <<>>
    ELSE ExpectedResults(n - 1)
            \o (IF Answered(symbols[n]) THEN Outcome(symbols[n]).found ELSE <<>>)

RECURSIVE ExpectedInsufficient(_)
ExpectedInsufficient(n) ==
    IF n = 0 THEN <<>>
    ELSE ExpectedInsufficient(n - 1)
            \o (IF Answered(symbols[n]) THEN Outcome(symbols[n]).insufficient ELSE <<>>)

\* C9: whatever the order in which the fetches complete, scan_symbols returns
\* the result list, in instrument-list order, and the statistics that the
\* answers alone determine.
C9_CompletionOrderIrrelevant ==
    pc = "scan_done" =>
        /\ results = ExpectedResults(Len(symbols))
        /\ insufficient_data = ExpectedInsufficient(Len(symbols))
        /\ scan_stats =
             Some([total_symbols |-> Len(symbols),
                   processed_symbols |-> Cardinality({sym \in SymbolSet : Answered(sym)}),
                   insufficient_data |-> Len(ExpectedInsufficient(Len(symbols))),
                   results_count |-> Len(ExpectedResults(Len(symbols))),
                   min_candles_needed |-> Max(ma_fast, ma_slow) + 10])

\* the second instrument's series arrived first, and both gave a result
C9_Witness ==
    /\ pc = "scan_done"
    /\ DictKeyList(candle_data) = <<2, 1>>
    /\ Len(results) = 2
    /\ results[1].symbol = 1
    /\ results[2].symbol = 2

-----------------------------------------------------------------------------
(* Statements about get_working_endpoint *)

\* a probe succeeds when the transport succeeds, the HTTP status is success
\* and the API-level code says success
ProbeSucceeded(a) ==
    a.transport = "ok" /\ a.status = 200 /\ a.body = "json" /\ a.code = "00000"

\* C10: get_working_endpoint returns a candidate only after a probe of it
\* succeeded, and then every candidate before it in the list was probed 3
\* times without success and no candidate after it was probed; it raises
\* exactly when every candidate has been probed 3 times without success; no
\* candidate is ever probed more than 3 times.
C10_FirstWorkingEndpoint ==
    /\ \A i \in 1..Len(endpoints) : pings[i] <= 3
    /\ pc = "probe_returned" =>
         \E i \in 1..Len(endpoints) :
            /\ base = Some(endpoints[i])
            /\ ProbeSucceeded(last_answer[i])
            /\ pings[i] >= 1
            /\ \A j \in 1..(i - 1) :
                 pings[j] = 3 /\ ~ProbeSucceeded(last_answer[j])
            /\ \A j \in (i + 1)..Len(endpoints) : pings[j] = 0
    /\ pc = "probe_raised" <=>
         \A i \in 1..Len(endpoints) :
            pings[i] = 3 /\ ~ProbeSucceeded(last_answer[i])
    /\ pc = "probe" => base = None

\* the second candidate is returned on its third probe
C10_Witness ==
    /\ pc = "probe_returned"
    /\ Len(endpoints) = 3
    /\ base = Some(endpoints[2])
    /\ pings = <<3, 3, 0>>
    /\ last_answer[1] = PingApiError

\* every candidate failed three times
C10_WitnessRaised ==
    /\ pc = "probe_raised"
    /\ Len(endpoints) = 2
    /\ pings = <<3, 3>>

-----------------------------------------------------------------------------
(* Statements about main *)

CandleRequests == {s \in DOMAIN requests_sent : requests_sent[s] > 0}
PingsIssued == {i \in DOMAIN pings : pings[i] > 0}
ListingOk ==
    /\ listing_response.transport = "ok"
    /\ listing_response.code = "00000"
    /\ listing_response.payload = "rows"
ListingFailedNow == listing_requests > 0 /\ ~ListingOk
InvalidRequest == signal_types = {} \/ ma_fast >= ma_slow

\* C11: fail fast.  When endpoint selection or the instrument listing has
\* failed, no ticker request and no candle request has been or is ever issued
\* and main is in (or one step from) its except clause; a ticker or candle
\* request is only issued after a probe that returned an endpoint whose last
\* ping succeeded and after exactly one successful listing; and
\* get_working_endpoint is called at most once per scan, whatever the number
\* of instruments.
C11_FailFast ==
    /\ probe_calls <= 1
    /\ listing_requests <= 1
    /\ (base = None /\ pc \notin {"main", "rejected", "probe"})
          => (pc \in {"probe_raised", "main_failed"} /\ listing_requests = 0)
    /\ (base = None \/ ListingFailedNow)
          => (ticker_requests = 0 /\ CandleRequests = {} /\ futures = <<>>)
    /\ ListingFailedNow => pc \in {"listing_raised", "main_failed"}
    /\ (ticker_requests > 0 \/ CandleRequests # {})
          => /\ probe_calls = 1
             /\ base # None
             /\ \E i \in DOMAIN last_answer :
                   base = Some(endpoints[i]) /\ ProbeSucceeded(last_answer[i])
             /\ listing_requests = 1
             /\ ListingOk

\* the listing failed after a successful probe and main has left through its
\* except clause
C11_Witness ==
    /\ pc = "main_failed"
    /\ base # None
    /\ ListingFailedNow
    /\ ticker_requests = 0

\* endpoint selection failed and main has left through its except clause
C11_WitnessProbeFailed ==
    /\ pc = "main_failed"
    /\ base = None
    /\ probe_calls = 1
    /\ listing_requests = 0

\* both instruments' candles requested after one probe and one listing
C11_WitnessScanned ==
    /\ Cardinality(CandleRequests) = MainSymbols
    /\ probe_calls = 1
    /\ listing_requests = 1

\* C12: a request with fast period >= slow period, or with no direction
\* selected, is rejected before any network call: no ping, no contracts
\* request, no tickers request, no candles request.
C12_InvalidRejected ==
    InvalidRequest
        => /\ pc \in {"main", "rejected"}
           /\ probe_calls = 0
           /\ PingsIssued = {}
           /\ listing_requests = 0
           /\ ticker_requests = 0
           /\ CandleRequests = {}

\* rejected for its periods alone
C12_Witness ==
    /\ pc = "rejected"
    /\ ma_fast >= ma_slow
    /\ signal_types # {}

\* rejected for its empty direction list alone
C12_WitnessNoDirection ==
    /\ pc = "rejected"
    /\ ma_fast < ma_slow
    /\ signal_types = {}

-----------------------------------------------------------------------------
(* Statements about the filters of scan_symbols *)

Evaluations(sym, f) ==
    {i \in DOMAIN evaluated : evaluated[i].symbol = sym /\ evaluated[i].filter = f}
PassedBefore(i, f) ==
    \E j \in 1..(i - 1) :
        /\ evaluated[j].symbol = evaluated[i].symbol
        /\ evaluated[j].filter = f
        /\ evaluated[j].passed
EvaluatedBefore(i, f) ==
    \E j \in 1..(i - 1) :
        evaluated[j].symbol = evaluated[i].symbol /\ evaluated[j].filter = f
ResultSymbols == {results[i].symbol : i \in DOMAIN results}
Visited == {symbols[i] : i \in 1..Min(idx - 1, Len(symbols))}

\* C13 as stated: the filters are evaluated in the order direction, volume,
\* position: the volume predicate only for a record that passed the direction
\* filter, the position predicate only for one that passed direction and
\* volume.
C13_DirectionVolumePosition ==
    \A i \in DOMAIN evaluated :
        /\ evaluated[i].filter = "volume" => PassedBefore(i, "direction")
        /\ evaluated[i].filter = "position"
              => (PassedBefore(i, "direction") /\ PassedBefore(i, "volume"))

\* C13, amended: the filters are composed by logical AND and evaluated in the
\* fixed order position, volume, direction.  Each is evaluated at most once
\* per instrument; the position predicate comes first (inside the detector),
\* the volume predicate is evaluated for every instrument with enough data
\* whatever the position predicate gave, the direction predicate only for an
\* instrument that passed the volume predicate; an instrument has a result
\* record exactly when its direction predicate was evaluated and every
\* predicate evaluated for it passed.
C13_PositionVolumeDirection ==
    /\ \A s \in SymbolSet : \A f \in {"position", "volume", "direction"} :
          Cardinality(Evaluations(s, f)) <= 1
    /\ \A i \in DOMAIN evaluated :
          /\ evaluated[i].filter = "position"
                => (~EvaluatedBefore(i, "volume") /\ ~EvaluatedBefore(i, "direction"))
          /\ evaluated[i].filter = "volume" => ~EvaluatedBefore(i, "direction")
          /\ evaluated[i].filter = "direction" => PassedBefore(i, "volume")
    /\ \A s \in Visited :
          /\ (s \in DictKeys(candle_data) /\ s \notin {insufficient_data[i] :
                                                        i \in DOMAIN insufficient_data})
                <=> Evaluations(s, "volume") # {}
          /\ s \in ResultSymbols
                <=> /\ Evaluations(s, "direction") # {}
                    /\ \A i \in DOMAIN evaluated :
                          evaluated[i].symbol = s => evaluated[i].passed

\* an instrument whose crossover the position filter rejected still had its
\* volume tested, and passed it, and then failed the direction test
C13_Witness ==
    \E s \in SymbolSet :
        /\ \E i \in Evaluations(s, "position") : ~evaluated[i].passed
        /\ \E i \in Evaluations(s, "volume") : evaluated[i].passed
        /\ \E i \in Evaluations(s, "direction") : ~evaluated[i].passed
        /\ pc = "scan_done"

\* an instrument that passed all three and has its record
C13_WitnessAllPassed ==
    \E s \in ResultSymbols :
        /\ \E i \in Evaluations(s, "position") : evaluated[i].passed
        /\ \E i \in Evaluations(s, "volume") : evaluated[i].passed
        /\ \E i \in Evaluations(s, "direction") : evaluated[i].passed

\* what the loop makes of an answered instrument under another direction
\* selection, everything else as in this scan
OutcomeWith(sym, types) ==
    LoopBody(sym, FetchedSeries(sym), tickers, types, min_volume, ma_fast,
             ma_slow, cross_confirm_bars, enable_price_filter, golden_price_filter,
             death_price_filter)

RECURSIVE ResultsWith(_, _)
ResultsWith(n, types) ==
    IF n = 0 THEN <<>>
    ELSE ResultsWith(n - 1, types)
            \o (IF Answered(symbols[n]) THEN OutcomeWith(symbols[n], types).found
                ELSE <<>>)

IsKind(kind, r) == r.signal_type = kind
OfKind(seq, kind) == SelectSeq(seq, LAMBDA r : IsKind(kind, r))
BothDirections == ResultsWith(Len(symbols), {GOLDEN, DEATH})

\* C14: a bearish-only scan returns only bearish records, every bearish record
\* the both-directions scan of the same inputs returns, and in the same
\* relative order: its result list is the both-directions list with the
\* bullish records struck out.  Symmetrically for a bullish-only scan.
C14_DirectionFilterSelects ==
    pc = "scan_done" =>
        /\ signal_types = {DEATH} => results = OfKind(BothDirections, "death")
        /\ signal_types = {GOLDEN} => results = OfKind(BothDirections, "golden")

\* a bearish-only scan of inputs whose both-directions list has a bullish
\* record before a bearish one
C14_Witness ==
    /\ pc = "scan_done"
    /\ signal_types = {DEATH}
    /\ Len(BothDirections) = 2
    /\ BothDirections[1].signal_type = "golden"
    /\ BothDirections[2].signal_type = "death"
    /\ Len(results) = 1
    /\ results[1].symbol = 2

\* a bullish-only scan that keeps two records in list order
C14_WitnessGolden ==
    /\ pc = "scan_done"
    /\ signal_types = {GOLDEN}
    /\ Len(results) = 2
    /\ results[1].symbol = 1
    /\ results[2].symbol = 2

-----------------------------------------------------------------------------
(* Statements about failed fetches and the statistics *)

InsufficientSet == {insufficient_data[i] : i \in DOMAIN insufficient_data}
Stats == scan_stats[1]
TooShort(sym) ==
    Answered(sym) /\ Len(responses[sym].data) < Max(ma_fast, ma_slow) + 10

-----------------------------------------------------------------------------
(* Statements about fetch_candles *)

FetchReturned == pc = "fetch_returned"
PayloadOf(r) == IF r.payload = "rows" THEN r.data ELSE <<>>
Occurrences(rows, row) == Cardinality({i \in DOMAIN rows : rows[i] = row})

\* C16 as stated: the series fetch_candles returns has strictly ascending,
\* pairwise distinct timestamps, whatever the payload.
C16_StrictlyAscendingTimestamps ==
    FetchReturned =>
        \A i, j \in DOMAIN df : i < j => df[i].ts < df[j].ts

\* what fetch_candles does give: the rows of the payload, every one of them
\* as often as the payload has it, in ascending order of timestamp
C16_SortedNotDeduplicated ==
    FetchReturned =>
        /\ \A i, j \in DOMAIN df : i < j => df[i].ts <= df[j].ts
        /\ Len(df) = Len(PayloadOf(responses[1]))
        /\ \A row \in PayloadRows :
              Occurrences(df, row) = Occurrences(PayloadOf(responses[1]), row)

\* a payload with one timestamp twice comes back with both rows
C16_DuplicateKept ==
    /\ FetchReturned
    /\ \E i \in DOMAIN df : i + 1 \in DOMAIN df /\ df[i].ts = df[i + 1].ts

-----------------------------------------------------------------------------
(* Statements about the record the detector returns *)

NoDirection == ~Info.golden_cross /\ ~Info.death_cross
BarsAgoInWindow ==
    /\ Info.cross_bars_ago # None
    /\ Info.cross_bars_ago[1] >= 1
    /\ Info.cross_bars_ago[1] <= cross_confirm_bars

\* C17 as stated: for every filter configuration, the bars-since-crossover
\* field of the returned record is nil whenever neither flag is set, and a
\* value k with 1 <= k <= lookback whenever a flag is set.
C17_BarsAgoFollowsDirection ==
    HasInfo =>
        /\ NoDirection => Info.cross_bars_ago = None
        /\ ~NoDirection => BarsAgoInWindow

\* what holds of the code: the field is a k of the window whenever a flag is
\* set, and it is nil with no flag set whenever position filtering is off
C17_BarsAgoWithoutPositionFilter ==
    HasInfo =>
        /\ ~NoDirection => BarsAgoInWindow
        /\ (~enable_price_filter /\ NoDirection) => Info.cross_bars_ago = None

\* the position filter cleared the flag of a crossover and left its
\* bars-since-crossover behind
C17_StaleBarsAgo ==
    /\ HasInfo
    /\ enable_price_filter
    /\ NoDirection
    /\ Info.cross_bars_ago # None

\* the loop's last pass: one before the stop value of its range
LastPass == Min(cross_confirm_bars + 1, NBars) - 1

\* C18: for a series that passes the length check, whatever the lookback
\* (also beyond the 10 bars the check adds to the longer period), every pair
\* of bars the loop classifies has its four averages defined (fast and slow,
\* at the earlier and at the later bar), and the current fast and slow
\* averages of the returned record are defined.
C18_NoWarmupLeak ==
    (Returned /\ NBars >= Max(ma_fast, ma_slow) + 10) =>
        /\ \A i \in compared : PairDefined(BarOf(i))
        /\ HasInfo
        /\ Info.ma_fast_current # NaN
        /\ Info.ma_slow_current # NaN
        /\ Info.ma_fast_current = SMA(ma_fast, NBars)
        /\ Info.ma_slow_current = SMA(ma_slow, NBars)

\* a lookback beyond the buffer took the loop, with no crossover on its way,
\* to a pair of bars inside the warm-up of the slow average, which it skipped
C18_Witness ==
    /\ HasInfo
    /\ cross_confirm_bars > 10
    /\ Info.cross_bars_ago = None
    /\ ~PairDefined(BarOf(LastPass))
    /\ LastPass \notin compared
    /\ 10 \in compared

-----------------------------------------------------------------------------
(* Statements about missing tickers and the returned statistics *)

TickerFetchFailed ==
    \/ ticker_response.transport # "ok"
    \/ ticker_response.code # "00000"
    \/ ticker_response.payload # "rows"
NoTickerFor(sym) ==
    \/ TickerFetchFailed
    \/ \A i \in DOMAIN ticker_response.data :
          \/ "symbol" \notin DOMAIN ticker_response.data[i]
          \/ ticker_response.data[i].symbol # sym
\* the crossover of a selected direction the detector finds in the series
\* fetched for an instrument
DetectedSelected(sym) ==
    LET ret == calculate_dual_ma_signals(FetchedSeries(sym), ma_fast, ma_slow,
                   cross_confirm_bars, enable_price_filter, golden_price_filter,
                   death_price_filter)
    IN  /\ ret.signal_info # None
        /\ \/ ret.signal_info[1].golden_cross /\ GOLDEN \in signal_types
           \/ ret.signal_info[1].death_cross /\ DEATH \in signal_types
ZeroTickerRecord(sym) ==
    \E i \in DOMAIN results :
        /\ results[i].symbol = sym
        /\ results[i].change_pct = <<0, 100>>
        /\ results[i].volume = 0
        /\ results[i].price = 0

\* C19: a failed tickers request, or a tickers answer without an entry for an
\* instrument, does not fail the scan: the ticker map is empty after a
\* failure, the scan goes on to its return, and with minimum volume 0 an
\* instrument without ticker whose series holds a crossover of a selected
\* direction has its record in the results, with change, volume and price 0.
C19_MissingTickerDefaultsToZero ==
    /\ pc # "scan_raised"
    /\ (TickerFetchFailed /\ pc # "scan_tickers") => tickers = <<>>
    /\ pc = "scan_done" =>
          \A sym \in SymbolSet :
              (Answered(sym) /\ NoTickerFor(sym) /\ min_volume = 0 /\ DetectedSelected(sym))
                  => ZeroTickerRecord(sym)

\* the tickers request failed and the scan returned a record with zero fields
C19_Witness ==
    /\ pc = "scan_done"
    /\ TickerFetchFailed
    /\ min_volume = 0
    /\ \E sym \in SymbolSet : DetectedSelected(sym) /\ ZeroTickerRecord(sym)

\* the tickers answer lists the first instrument only; the second one's
\* record has zero fields, the first one's has its ticker
C19_WitnessNoEntry ==
    /\ pc = "scan_done"
    /\ ~TickerFetchFailed
    /\ ~NoTickerFor(1)
    /\ NoTickerFor(2)
    /\ ZeroTickerRecord(2)
    /\ Len(results) = 2
    /\ results[1].volume = 10

\* C20: the statistics of a scan over N distinct instruments satisfy
\* total = N and results + insufficient <= processed <= total, the two counts
\* being the lengths of the two lists; an instrument has at most one result
\* record, is counted at most once as insufficient, and never both.
C20_StatisticsConsistent ==
    pc = "scan_done" =>
        /\ Stats.total_symbols = Cardinality(SymbolSet)
        /\ Stats.results_count = Len(results)
        /\ Stats.insufficient_data = Len(insufficient_data)
        /\ Stats.results_count + Stats.insufficient_data <= Stats.processed_symbols
        /\ Stats.processed_symbols <= Stats.total_symbols
        /\ \A sym \in SymbolSet :
              /\ Cardinality({i \in DOMAIN results : results[i].symbol = sym}) <= 1
              /\ Cardinality({i \in DOMAIN insufficient_data :
                                 insufficient_data[i] = sym}) <= 1
        /\ ResultSymbols \cap InsufficientSet = {}
        /\ (ResultSymbols \cup InsufficientSet) \subseteq SymbolSet

\* the first instrument has a clean crossover and the second 5 bars: one
\* result, one insufficient, two instruments
C20_Witness ==
    /\ pc = "scan_done"
    /\ Len(symbols) = 2
    /\ Len(responses[2].data) = ShortLen
    /\ ResultSymbols = {1}
    /\ InsufficientSet = {2}
    /\ Stats.results_count = 1
    /\ Stats.insufficient_data = 1
    /\ Stats.total_symbols = 2


====
